---- MODULE Spec2Model ----
(***************************************************************************)
(* Chou-Fasman secondary structure prediction (chou_fasman.py).            *)
(*                                                                         *)
(* Python lists and strings are modelled as TLA+ sequences; a Python index *)
(* k is position k+1 of the sequence.  Propensities (the float values of   *)
(* the table) are fixed-point numbers: the integer v stands for v/Scale.   *)
(* All table values used are multiples of 1/2, which binary floating point *)
(* adds exactly, so the float sums of the program are the integer sums     *)
(* here.                                                                   *)
(***************************************************************************)
EXTENDS Integers, Sequences, FiniteSets, TLC

VARIABLES
    seq,        \* the protein sequence (global `seq`)
    N,          \* its length (global `N`)
    cf_table,   \* the propensity table: code -> [Pa, Pb]; absent codes have no row
    predict_a,  \* helix assignment array
    predict_b,  \* sheet assignment array
    predict,    \* final assignment array
    pc,         \* position of the script
    ret,        \* where the running extension() call returns to
    who,        \* extension(): column used, "Pa" or "Pb" (X is "H" or "S" with it)
    strt, stp,  \* window of the running scan / arguments of extension()
    rgt_ptr, lft_ptr, rgt_scr, lft_scr,   \* locals of extension()
    i,          \* conflict_resolution(): scan index
    scanned,    \* history: windows <<who, start>> whose score was computed
    trig,       \* history: windows <<who, start>> that called extension()
    ext_wr,     \* history: raw indices extension() used in an item assignment
    ext_rd,     \* history: indices of seq extension() read
    lft_log,    \* history: left loop of the running call, <<window start, wrote?>>
    writes,     \* history: number of assignments to each slot of predict
    snap        \* the array after the first extension() (idempotence experiment)

vars == <<seq, N, cf_table, predict_a, predict_b, predict, pc, ret, who, strt, stp,
          rgt_ptr, lft_ptr, rgt_scr, lft_scr, i, scanned, trig, ext_wr, ext_rd,
          lft_log, writes, snap>>

----------------------------------------------------------------------------
\* Bounds of the model.
MaxN == 8        \* longest sequence run through the whole script
MaxFairN == 7    \* longest sequence of the runs checked for termination
MaxCR == 4       \* longest arrays handed directly to conflict_resolution

\* Fixed-point unit of the float values.
Scale == 2

\* Program constants.
HelixWidth == 6
SheetWidth == 5
HelixThreshold == 4
SheetThreshold == 3
ExtWindow == 4
ExtThreshold == 4

Codes == {"A", "B"}

\* The tables read from ChouFas.csv that the model runs: rows are code -> Pa, Pb.
Row(a, b) == [Pa |-> a, Pb |-> b]
TableFormers == [A |-> Row(3, 1),  B |-> Row(1, 3)]      \* 1.5/0.5 and 0.5/1.5
TableBoth == [A |-> Row(2, 3),  B |-> Row(3, 2)]         \* 1.0/1.5 and 1.5/1.0
TableNegative == [A |-> Row(2, 2),  B |-> Row(-3, -3)]   \* 1.0/1.0 and -1.5/-1.5
TableBreaker == [A |-> Row(3, 3),  B |-> Row(-1, 1)]     \* 1.5/1.5 and -0.5/0.5
TableNoB == [A |-> Row(2, 2)]                            \* B has no row
Tables == {TableFormers, TableBoth, TableNegative, TableBreaker, TableNoB}

Min(a, b) == IF a < b THEN a ELSE b
Max(a, b) == IF a > b THEN a ELSE b

\* ['_']*n
Blank(n) == [k \in 1..n |-> "_"]
SeqsUpTo(S, n) == UNION { [1..m -> S] : m \in 0..n }

----------------------------------------------------------------------------
\* Table access: cf_table.loc[cf_table['code'] == c, col].

\* The selection is a one-element Series exactly when the code has a row;
\* float()/int() of an empty Series raises.
HasRow(c) == c \in DOMAIN cf_table

\* float(cf_table.loc[cf_table['code'] == c, col])
Float(c, col) == cf_table[c][col]

\* int(x): truncation toward zero
IntOf(v) == IF v >= 0 THEN v \div Scale ELSE -((-v) \div Scale)

\* min(int(cf_table.loc[...]), 1)
Indicator(c, col) == Min(IntOf(Float(c, col)), 1)

\* Python slice bounds of seq[lo:hi]: a negative bound counts from the end, and
\* both are clamped to 0..len.
Clamp(x, len) == IF x < 0 THEN Max(x + len, 0) ELSE Min(x, len)
\* The Python indices of s[lo:hi]
SliceIdx(lo, hi, len) == { k \in 0..(len - 1) : Clamp(lo, len) <= k /\ k < Clamp(hi, len) }

\* every code of seq[lo:hi] has a row
SliceKnown(lo, hi) == \A k \in SliceIdx(lo, hi, N) : HasRow(seq[k + 1])

RECURSIVE SumOver(_, _)
SumOver(S, col) ==
    IF S = {} THEN 0
    ELSE LET k == CHOOSE x \in S : TRUE
         IN  Float(seq[k + 1], col) + SumOver(S \ {k}, col)

\* for j in seq[lo:hi]: scr += float(...)
SliceSum(lo, hi, col) == SumOver(SliceIdx(lo, hi, N), col)

RECURSIVE CountOver(_, _)
CountOver(S, col) ==
    IF S = {} THEN 0
    ELSE LET k == CHOOSE x \in S : TRUE
         IN  Indicator(seq[k + 1], col) + CountOver(S \ {k}, col)

\* for i in seq[strt:stp]: score += min(int(...), 1)
SliceScore(lo, hi, col) == CountOver(SliceIdx(lo, hi, N), col)

\* struct[lo:hi] = [X]*(hi - lo)
SliceAssign(struct, lo, hi, X) ==
    LET len == Len(struct)
        a == Clamp(lo, len)
        b == Max(Clamp(hi, len), a)
    IN  SubSeq(struct, 1, a) \o [k \in 1..(hi - lo) |-> X] \o SubSeq(struct, b + 1, len)

\* struct[k] = X is defined for -len <= k < len; a negative k counts from the end
IndexOK(struct, k) == -Len(struct) <= k /\ k < Len(struct)
ItemAssign(struct, k, X) ==
    [struct EXCEPT ![(IF k < 0 THEN k + Len(struct) ELSE k) + 1] = X]

Symbol(col) == IF col = "Pa" THEN "H" ELSE "S"
Struct(col) == IF col = "Pa" THEN predict_a ELSE predict_b

----------------------------------------------------------------------------
\* Guards and small steps of the code, one operator per source expression.

\* (a variant that stops one window early)
ScanGuard_Strict(e) == e < N

\* while(stp <= N)
ScanGuard(e) == e <= N

\* (a variant that asks for more than the threshold)
Nucleates_Strict(score, threshold) == score > threshold

\* if(score >= 4) / if(score >= 3)
Nucleates(score, threshold) == score >= threshold

\* (a variant that bounds the position assigned instead of the window read)
RightGuard_Target(scr, ptr) == scr >= ExtThreshold * Scale /\ ptr + 3 <= N

\* while(rgt_scr >= 4 and rgt_ptr + 4 < N)
RightGuard(scr, ptr) == scr >= ExtThreshold * Scale /\ ptr + ExtWindow < N

\* while(lft_scr >= 4 and lft_ptr - 4 > 0)
LeftGuard(scr, ptr) == scr >= ExtThreshold * Scale /\ ptr - ExtWindow > 0

\* (a variant that forgets the increment)
AdvanceRight_Stuck(ptr) == ptr

\* rgt_ptr += 1
AdvanceRight(ptr) == ptr + 1

\* lft_ptr += 1
AdvanceLeft(ptr) == ptr + 1

\* (a variant that sends equal sums to Sheet)
Resolve_TieToSheet(score_a, score_b) == IF score_a <= score_b THEN "S" ELSE "H"

\* cnflct = 'S' if score_a < score_b else 'H'
Resolve(score_a, score_b) == IF score_a < score_b THEN "S" ELSE "H"

\* (a variant that forgets the sheet array)
Merge_HelixOnly(h, s) == IF h # "_" THEN "H" ELSE "_"

\* 'H' if helix[i] != '_' else ('S' if sheet[i] != '_' else '_')
Merge(h, s) == IF h # "_" THEN "H" ELSE (IF s # "_" THEN "S" ELSE "_")

\* (a variant that runs one position too far)
RunRange_Inclusive(j, e) == j..e

\* range(j, i)
RunRange(j, e) == j..(e - 1)

\* the inner while of conflict_resolution: the first index from k on that is
\* not claimed by both arrays, or N
RECURSIVE RunEnd(_)
RunEnd(k) ==
    IF k < N /\ predict_a[k + 1] = "H" /\ predict_b[k + 1] = "S"
    THEN RunEnd(k + 1)
    ELSE k

----------------------------------------------------------------------------
inputs == <<seq, N, cf_table>>
ext_locals == <<rgt_ptr, lft_ptr, rgt_scr, lft_scr>>
ext_hist == <<ext_wr, ext_rd, lft_log>>
scan_hist == <<scanned, trig>>
cr_state == <<predict, i, writes>>

\* An uncaught exception (TypeError of float()/int() on an empty selection,
\* IndexError of an item assignment) ends the script.
Raise ==
    /\ pc' = "fail"
    /\ UNCHANGED <<inputs, predict_a, predict_b, ret, who, strt, stp, ext_locals,
                   ext_hist, scan_hist, cr_state, snap>>

\* extension(struct, s, e, cf_table, X, col), up to its first loop
ExtEnter(s, e, col, back) ==
    /\ who' = col /\ strt' = s /\ stp' = e /\ ret' = back
    /\ IF col = "Pa"
       THEN predict_a' = SliceAssign(predict_a, s, e, "H") /\ UNCHANGED predict_b
       ELSE predict_b' = SliceAssign(predict_b, s, e, "S") /\ UNCHANGED predict_a
    /\ lft_scr' = 4 * Scale
    /\ rgt_scr' = 4 * Scale
    /\ rgt_ptr' = e - 3
    /\ lft_ptr' = s + 3
    /\ lft_log' = <<>>
    /\ pc' = "rgt"
    /\ UNCHANGED <<inputs, ext_wr, ext_rd, cr_state>>

\* struct[k] = X inside extension()
ExtWrite(k) ==
    IF who = "Pa"
    THEN predict_a' = ItemAssign(predict_a, k, "H") /\ UNCHANGED predict_b
    ELSE predict_b' = ItemAssign(predict_b, k, "S") /\ UNCHANGED predict_a

Init0 ==
    /\ predict_a = Blank(N) /\ predict_b = Blank(N) /\ predict = Blank(N)
    /\ ret = "none"
    /\ rgt_ptr = 0 /\ lft_ptr = 0 /\ rgt_scr = 0 /\ lft_scr = 0
    /\ i = 0
    /\ scanned = {} /\ trig = {} /\ ext_wr = {} /\ ext_rd = {} /\ lft_log = <<>>
    /\ writes = [k \in 1..N |-> 0]
    /\ snap = <<>>

\* The script after pre_process and the three ['_']*N, entering alpha_chk.
ScriptStart(maxlen, tables) ==
    /\ seq \in SeqsUpTo(Codes, maxlen)
    /\ N = Len(seq)
    /\ cf_table \in tables
    /\ Init0
    /\ who = "Pa" /\ strt = 0 /\ stp = HelixWidth
    /\ pc = "alpha"

Init == ScriptStart(MaxN, Tables)

\* One turn of the while loop of alpha_chk; at its exit the script calls beta_chk.
alpha_chk ==
    /\ pc = "alpha"
    /\ IF ScanGuard(stp)
       THEN IF ~SliceKnown(strt, stp)
            THEN Raise
            ELSE /\ scanned' = scanned \cup {<<"Pa", strt>>}
                 /\ IF Nucleates(SliceScore(strt, stp, "Pa"), HelixThreshold)
                    THEN /\ trig' = trig \cup {<<"Pa", strt>>}
                         /\ ExtEnter(strt, stp, "Pa", "alpha_inc")
                         /\ UNCHANGED snap
                    ELSE /\ strt' = strt + 1 /\ stp' = stp + 1
                         /\ UNCHANGED <<inputs, predict_a, predict_b, pc, ret, who,
                                        ext_locals, ext_hist, trig, cr_state, snap>>
       ELSE /\ pc' = "beta" /\ strt' = 0 /\ stp' = SheetWidth
            /\ UNCHANGED <<inputs, predict_a, predict_b, ret, who, ext_locals,
                           ext_hist, scan_hist, cr_state, snap>>

\* One turn of the while loop of beta_chk; at its exit the script calls
\* conflict_resolution.
beta_chk ==
    /\ pc = "beta"
    /\ IF ScanGuard(stp)
       THEN IF ~SliceKnown(strt, stp)
            THEN Raise
            ELSE /\ scanned' = scanned \cup {<<"Pb", strt>>}
                 /\ IF Nucleates(SliceScore(strt, stp, "Pb"), SheetThreshold)
                    THEN /\ trig' = trig \cup {<<"Pb", strt>>}
                         /\ ExtEnter(strt, stp, "Pb", "beta_inc")
                         /\ UNCHANGED snap
                    ELSE /\ strt' = strt + 1 /\ stp' = stp + 1
                         /\ UNCHANGED <<inputs, predict_a, predict_b, pc, ret, who,
                                        ext_locals, ext_hist, trig, cr_state, snap>>
       ELSE /\ pc' = "cr" /\ i' = 0
            /\ UNCHANGED <<inputs, predict_a, predict_b, predict, writes, ret, who,
                           strt, stp, ext_locals, ext_hist, scan_hist, snap>>

\* strt += 1; stp += 1 after extension() returned to the scan
scan_inc ==
    /\ pc \in {"alpha_inc", "beta_inc"}
    /\ strt' = strt + 1 /\ stp' = stp + 1
    /\ pc' = IF pc = "alpha_inc" THEN "alpha" ELSE "beta"
    /\ UNCHANGED <<inputs, predict_a, predict_b, ret, who, ext_locals, ext_hist,
                   scan_hist, cr_state, snap>>

\* One turn of the rightward while loop of extension(); at its exit the
\* leftward loop starts.
extension_right ==
    /\ pc = "rgt"
    /\ IF RightGuard(rgt_scr, rgt_ptr)
       THEN IF ~SliceKnown(rgt_ptr, rgt_ptr + ExtWindow)
            THEN Raise
            ELSE LET scr == SliceSum(rgt_ptr, rgt_ptr + ExtWindow, who)
                     hit == scr >= ExtThreshold * Scale
                 IN  IF hit /\ ~IndexOK(Struct(who), rgt_ptr + 3)
                     THEN /\ pc' = "fail"
                          /\ ext_wr' = ext_wr \cup {rgt_ptr + 3}
                          /\ UNCHANGED <<inputs, predict_a, predict_b, ret, who, strt,
                                         stp, ext_locals, ext_rd, lft_log, scan_hist,
                                         cr_state, snap>>
                     ELSE /\ rgt_scr' = scr
                          /\ IF hit
                             THEN ExtWrite(rgt_ptr + 3) /\ ext_wr' = ext_wr \cup {rgt_ptr + 3}
                             ELSE UNCHANGED <<predict_a, predict_b, ext_wr>>
                          /\ ext_rd' = ext_rd \cup SliceIdx(rgt_ptr, rgt_ptr + ExtWindow, N)
                          /\ rgt_ptr' = AdvanceRight(rgt_ptr)
                          /\ UNCHANGED <<inputs, pc, ret, who, strt, stp, lft_ptr, lft_scr,
                                         lft_log, scan_hist, cr_state, snap>>
       ELSE /\ pc' = "lft"
            /\ UNCHANGED <<inputs, predict_a, predict_b, ret, who, strt, stp, ext_locals,
                           ext_hist, scan_hist, cr_state, snap>>

\* One turn of the leftward while loop of extension(); at its exit the call
\* returns.
extension_left ==
    /\ pc = "lft"
    /\ IF LeftGuard(lft_scr, lft_ptr)
       THEN IF ~SliceKnown(lft_ptr - ExtWindow, lft_ptr)
            THEN Raise
            ELSE LET scr == SliceSum(lft_ptr - ExtWindow, lft_ptr, who)
                     hit == scr >= ExtThreshold * Scale
                 IN  IF hit /\ ~IndexOK(Struct(who), lft_ptr - 4)
                     THEN /\ pc' = "fail"
                          /\ ext_wr' = ext_wr \cup {lft_ptr - 4}
                          /\ UNCHANGED <<inputs, predict_a, predict_b, ret, who, strt,
                                         stp, ext_locals, ext_rd, lft_log, scan_hist,
                                         cr_state, snap>>
                     ELSE /\ lft_scr' = scr
                          /\ IF hit
                             THEN ExtWrite(lft_ptr - 4) /\ ext_wr' = ext_wr \cup {lft_ptr - 4}
                             ELSE UNCHANGED <<predict_a, predict_b, ext_wr>>
                          /\ ext_rd' = ext_rd \cup SliceIdx(lft_ptr - ExtWindow, lft_ptr, N)
                          /\ lft_log' = Append(lft_log, <<lft_ptr - ExtWindow, hit>>)
                          /\ lft_ptr' = AdvanceLeft(lft_ptr)
                          /\ UNCHANGED <<inputs, pc, ret, who, strt, stp, rgt_ptr, rgt_scr,
                                         scan_hist, cr_state, snap>>
       ELSE /\ pc' = ret
            /\ UNCHANGED <<inputs, predict_a, predict_b, ret, who, strt, stp, ext_locals,
                           ext_hist, scan_hist, cr_state, snap>>

\* One turn of the outer while loop of conflict_resolution (the inner loop, the
\* run's assignment and the single position after it); at its exit the script
\* has its final assignment.
conflict_resolution ==
    /\ pc = "cr"
    /\ IF i < N
       THEN LET j == i
                e == RunEnd(i)
            IN  IF \E k \in j..(e - 1) : ~HasRow(seq[k + 1])
                THEN Raise
                ELSE LET cnflct == Resolve(SumOver(j..(e - 1), "Pa"), SumOver(j..(e - 1), "Pb"))
                         run == RunRange(j, e)
                         p1 == [k \in 1..Len(predict) |->
                                   IF (k - 1) \in run THEN cnflct ELSE predict[k]]
                         p2 == IF e < N
                               THEN [p1 EXCEPT ![e + 1] = Merge(predict_a[e + 1], predict_b[e + 1])]
                               ELSE p1
                     IN  /\ predict' = p2
                         /\ writes' = [k \in 1..Len(writes) |->
                                          writes[k]
                                          + (IF (k - 1) \in run THEN 1 ELSE 0)
                                          + (IF e < N /\ k - 1 = e THEN 1 ELSE 0)]
                         /\ i' = IF e < N THEN e + 1 ELSE e
                         /\ UNCHANGED <<inputs, predict_a, predict_b, pc, ret, who, strt, stp,
                                        ext_locals, ext_hist, scan_hist, snap>>
       ELSE /\ pc' = "done"
            /\ UNCHANGED <<inputs, predict_a, predict_b, ret, who, strt, stp, ext_locals,
                           ext_hist, scan_hist, cr_state, snap>>

Next ==
    \/ alpha_chk
    \/ beta_chk
    \/ scan_inc
    \/ extension_right
    \/ extension_left
    \/ conflict_resolution

Spec == Init /\ [][Next]_vars

\* The script is one sequential computation: it takes its next step whenever
\* it has one.
InitFair == ScriptStart(MaxFairN, {TableFormers, TableNegative, TableBreaker})

FairSpec == InitFair /\ [][Next]_vars /\ WF_vars(Next)

----------------------------------------------------------------------------
\* conflict_resolution called on its own, with any helix array and any sheet
\* array of the sequence's length.
InitCR ==
    /\ seq \in SeqsUpTo(Codes, MaxCR)
    /\ N = Len(seq)
    /\ cf_table \in Tables
    /\ predict_a \in [1..N -> {"H", "_"}]
    /\ predict_b \in [1..N -> {"S", "_"}]
    /\ predict = Blank(N)
    /\ ret = "none" /\ who = "Pa" /\ strt = 0 /\ stp = 0
    /\ rgt_ptr = 0 /\ lft_ptr = 0 /\ rgt_scr = 0 /\ lft_scr = 0
    /\ i = 0
    /\ scanned = {} /\ trig = {} /\ ext_wr = {} /\ ext_rd = {} /\ lft_log = <<>>
    /\ writes = [k \in 1..N |-> 0]
    /\ snap = <<>>
    /\ pc = "cr"

NextCR == conflict_resolution

SpecCR == InitCR /\ [][NextCR]_vars

----------------------------------------------------------------------------
\* extension() called on a fresh array for a window that nucleates, and then
\* called again on the labelled region [a, b) the first call left around it.
Width(col) == IF col = "Pa" THEN HelixWidth ELSE SheetWidth
Threshold(col) == IF col = "Pa" THEN HelixThreshold ELSE SheetThreshold

InitExt ==
    /\ seq \in SeqsUpTo(Codes, MaxN)
    /\ N = Len(seq)
    /\ cf_table \in Tables
    /\ Init0
    /\ \E col \in {"Pa", "Pb"} : \E s \in 0..MaxN :
          /\ s + Width(col) <= N
          /\ SliceKnown(s, s + Width(col))
          /\ Nucleates(SliceScore(s, s + Width(col), col), Threshold(col))
          /\ who = col /\ strt = s /\ stp = s + Width(col)
    /\ pc = "x_first"

\* the labelled region of struct around [s, e): its first index and the index
\* after its last
RegionLo(struct, s, X) ==
    CHOOSE a \in 0..s :
        /\ \A k \in a..s : struct[k + 1] = X
        /\ (a = 0 \/ struct[a] # X)
RegionHi(struct, e, X) ==
    CHOOSE b \in e..Len(struct) :
        /\ \A k \in (e - 1)..(b - 1) : struct[k + 1] = X
        /\ (b = Len(struct) \/ struct[b + 1] # X)

extend_once ==
    /\ pc = "x_first"
    /\ ExtEnter(strt, stp, who, "x_mid")
    /\ UNCHANGED <<scan_hist, snap>>

extend_again ==
    /\ pc = "x_mid"
    /\ snap' = Struct(who)
    /\ ExtEnter(RegionLo(Struct(who), strt, Symbol(who)),
                RegionHi(Struct(who), stp, Symbol(who)), who, "x_done")
    /\ UNCHANGED scan_hist

NextExt ==
    \/ extend_once
    \/ extension_right
    \/ extension_left
    \/ extend_again

SpecExt == InitExt /\ [][NextExt]_vars

----------------------------------------------------------------------------
\* Vocabulary of the properties.

AllKnown == \A k \in 1..N : HasRow(seq[k])

\* position k (a Python index) is claimed by both arrays
Conflict(k) == predict_a[k + 1] = "H" /\ predict_b[k + 1] = "S"

\* the maximal runs [p, q) of conflict positions
MaxRuns ==
    { r \in (0..N) \X (0..N) :
        /\ r[1] < r[2]
        /\ \A k \in r[1]..(r[2] - 1) : Conflict(k)
        /\ (r[1] = 0 \/ ~Conflict(r[1] - 1))
        /\ (r[2] = N \/ ~Conflict(r[2])) }

RunSum(r, col) == SumOver(r[1]..(r[2] - 1), col)

\* the number of residues of seq[lo:hi] whose propensity is >= 1.0
NumAtLeastOne(lo, hi, col) ==
    Cardinality({ k \in lo..(hi - 1) : Float(seq[k + 1], col) >= Scale })

\* every propensity of seq[lo:hi] is above -1.0
AboveMinusOne(lo, hi, col) ==
    \A k \in lo..(hi - 1) : Float(seq[k + 1], col) > -Scale

Labelled(struct, lo, hi, X) == \A k \in lo..(hi - 1) : struct[k + 1] = X

----------------------------------------------------------------------------
C2_WrittenOnce ==
    /\ \A k \in 1..N : writes[k] = (IF k - 1 < i THEN 1 ELSE 0)
    /\ pc = "done" => i = N
    /\ i <= N

\* a finished scan over a run of two or more positions followed by a position
\* outside any run
C2_Witness ==
    /\ pc = "done"
    /\ \E r \in MaxRuns : r[2] - r[1] >= 2 /\ r[2] < N
    /\ \A k \in 1..N : writes[k] = 1

\* C3: when conflict_resolution has finished, a position not claimed by both
\* arrays is Helix if the helix array labels it, else Sheet if the sheet array
\* labels it, else Coil; and a position is Coil exactly when neither labels it.
C3_Unclaimed ==
    pc = "done" =>
        \A k \in 0..(N - 1) :
            /\ ~Conflict(k) =>
                  predict[k + 1] = (IF predict_a[k + 1] = "H" THEN "H"
                                    ELSE IF predict_b[k + 1] = "S" THEN "S" ELSE "_")
            /\ predict[k + 1] = "_" <=> (predict_a[k + 1] # "H" /\ predict_b[k + 1] # "S")

\* a finished scan with a helix-only, a sheet-only and an unlabelled position
C3_Witness ==
    /\ pc = "done"
    /\ \E k \in 1..N : predict_a[k] = "H" /\ predict_b[k] = "_" /\ predict[k] = "H"
    /\ \E k \in 1..N : predict_a[k] = "_" /\ predict_b[k] = "S" /\ predict[k] = "S"
    /\ \E k \in 1..N : predict_a[k] = "_" /\ predict_b[k] = "_" /\ predict[k] = "_"

----------------------------------------------------------------------------
C5_CountDecides ==
    \A w \in scanned :
        w \in trig <=>
            NumAtLeastOne(w[2], w[2] + Width(w[1]), w[1]) >= Threshold(w[1])

\* C5 (amended): the same for the windows whose propensities are all above
\* -1.0 (a value <= -1.0 contributes its negative integer part, not 0); a
\* window that calls extension() is labelled; and a script that got through
\* both scans scored every window that fits.
C5_CountDecidesAboveMinusOne ==
    /\ \A w \in scanned :
          /\ AboveMinusOne(w[2], w[2] + Width(w[1]), w[1]) =>
                (w \in trig <=>
                    NumAtLeastOne(w[2], w[2] + Width(w[1]), w[1]) >= Threshold(w[1]))
          /\ w \in trig =>
                Labelled(Struct(w[1]), w[2], w[2] + Width(w[1]), Symbol(w[1]))
    /\ pc \in {"cr", "done"} =>
          \A col \in {"Pa", "Pb"} : \A s \in 0..(N - Width(col)) : <<col, s>> \in scanned

\* a finished run in which a helix window with exactly 4 residues >= 1.0 and a
\* residue of negative propensity called extension(), and a sheet window with
\* only 2 residues >= 1.0 did not
C5_Witness ==
    /\ pc = "done"
    /\ \E w \in trig :
          /\ w[1] = "Pa"
          /\ NumAtLeastOne(w[2], w[2] + HelixWidth, "Pa") = HelixThreshold
          /\ AboveMinusOne(w[2], w[2] + HelixWidth, "Pa")
          /\ \E k \in w[2]..(w[2] + HelixWidth - 1) : Float(seq[k + 1], "Pa") < 0
    /\ \E w \in scanned \ trig :
          /\ w[1] = "Pb"
          /\ NumAtLeastOne(w[2], w[2] + SheetWidth, "Pb") = SheetThreshold - 1

\* C6 (as stated): extension() run again over the region [a, b) that its first
\* run on a fresh array left around the nucleus changes nothing.
C6_Idempotent == pc = "x_done" => Struct(who) = snap

\* C7 (as stated): when the rightward loop of extension() has ended, every
\* position k >= stop is labelled for which all windows [j-3, j+1),
\* j = stop..k, lie inside the sequence (j + 1 <= N) and sum to >= 4.0.
C7_RightToTheEnd ==
    pc = "lft" =>
        \A k \in stp..(N - 1) :
            (\A j \in stp..k :
                /\ j + 1 <= N
                /\ SliceKnown(j - 3, j + 1)
                /\ SliceSum(j - 3, j + 1, who) >= ExtThreshold * Scale)
            => Struct(who)[k + 1] = Symbol(who)

\* C8 (as stated): the p-th turn of the leftward loop of extension() looks at
\* the window that starts p positions left of start, and a position it labels
\* is left of start (so never at or beyond stop).
C8_GrowsLeft ==
    pc \in {"lft", "alpha_inc", "beta_inc"} =>
        \A p \in 1..Len(lft_log) :
            /\ lft_log[p][1] = strt - p
            /\ lft_log[p][2] => (lft_log[p][1] < strt /\ lft_log[p][1] < stp)

\* C9: a script run on a sequence whose codes all have rows reaches its end.
C9_Terminates == AllKnown => <>(pc = "done")

\* a finished run, all codes with rows, in which both scans called
\* extension() and its leftward loop went round at least three times
C9_Witness ==
    /\ pc = "done"
    /\ AllKnown
    /\ \E w \in trig : w[1] = "Pa"
    /\ \E w \in trig : w[1] = "Pb"
    /\ Len(lft_log) >= 3

\* C10: every index extension() assigns and every index of the sequence it
\* reads lies in 0..N-1, the window it is called on lies in 0..N, and the
\* arrays keep their length N.
C10_InRange ==
    /\ ext_wr \subseteq 0..(N - 1)
    /\ ext_rd \subseteq 0..(N - 1)
    /\ pc \in {"rgt", "lft"} => (0 <= strt /\ strt < stp /\ stp <= N)
    /\ Len(predict_a) = N
    /\ Len(predict_b) = N

\* a finished run in which extension() assigned index 1 (the lowest its
\* leftward loop reaches) and index N-2 (the highest its rightward loop reaches)
C10_Witness ==
    /\ pc = "done"
    /\ 1 \in ext_wr
    /\ (N - 2) \in ext_wr
    /\ \E w \in trig : w[2] = 0 /\ w[2] + Width(w[1]) < N - 2

====
